---- MODULE Spec2Model ----
(***************************************************************************)
(* Model of the Downloadspy Telegram bot: the update dispatcher of bot.py, *)
(* the four handlers of handlers.py and the two downloader adapters.       *)
(* Text is modelled as sequences of one-character strings, so that the     *)
(* callback-payload codec and the filename sanitiser are computed the way  *)
(* the code computes them.                                                 *)
(***************************************************************************)
EXTENDS Integers, Sequences, FiniteSets, TLC

VARIABLES
    req,    \* per request: handler position, handler locals, chat state, history
    fs,     \* the download directory: path -> file
    loop,   \* the request whose blocking call occupies the event loop, 0 if none
    cu,     \* clean_up harness: the last clean_up call
    codec,  \* payload harness: the last encode/decode round trip
    fname,  \* filename harness: the last filename derivation
    route,  \* routing harness: the last free-text message and its outcomes
    call    \* adapter harness: the last call of an adapter method made on its own

vars == <<req, fs, loop, cu, codec, fname, route, call>>

----------------------------------------------------------------------------
(* Bounds *)

NumReq == 2
MaxRaw == 7
MaxLen == 3

Req == 1..NumReq

----------------------------------------------------------------------------
(* Program constants *)

MAX_FILE_SIZE == 52428800
DURATION_LIMIT == 600
MENU_LIMIT == 5

\* bot.py builds the Application without concurrent_updates: updates are
\* processed one after the other.
concurrent_updates == FALSE

----------------------------------------------------------------------------
(* Text *)

QUALITY_PREFIX == <<"q","u","a","l","i","t","y","_","y","t","_">>
FORMAT_PREFIX == <<"f","o","r","m","a","t","_","s","a","a","v","n","_">>
QUALITY_PATTERN == <<"q","u","a","l","i","t","y","_">>
FORMAT_PATTERN == <<"f","o","r","m","a","t","_">>
YOUTUBE_COM == <<"y","o","u","t","u","b","e",".","c","o","m">>
YOUTU_BE == <<"y","o","u","t","u",".","b","e">>
JIOSAAVN_COM == <<"j","i","o","s","a","a","v","n",".","c","o","m">>
SAAVN_COM == <<"s","a","a","v","n",".","c","o","m">>
Q720 == <<"7","2","0">>
Q480 == <<"4","8","0">>
QAUDIO == <<"a","u","d","i","o">>
SEP == <<"_">>

\* s[i..] starts with p
StartsAt(s, p, i) ==
    /\ i + Len(p) - 1 <= Len(s)
    /\ \A k \in 1..Len(p) : s[i + k - 1] = p[k]

\* Python: p in s
Contains(s, p) == \E i \in 1..(Len(s) + 1) : StartsAt(s, p, i)

\* Python: s.split('_')
RECURSIVE SplitFrom(_, _, _)
SplitFrom(s, i, cur) ==
    IF i > Len(s) THEN <<cur>>
    ELSE IF s[i] = "_" THEN <<cur>> \o SplitFrom(s, i + 1, <<>>)
    ELSE SplitFrom(s, i + 1, Append(cur, s[i]))

split(s) == SplitFrom(s, 1, <<>>)

\* Python: '_'.join(parts)
RECURSIVE join(_)
join(parts) ==
    IF Len(parts) = 0 THEN <<>>
    ELSE IF Len(parts) = 1 THEN parts[1]
    ELSE parts[1] \o SEP \o join(Tail(parts))

\* Python: s.replace(old, ""), every non-overlapping occurrence, left to right
RECURSIVE ReplaceFrom(_, _, _)
ReplaceFrom(s, old, i) ==
    IF i > Len(s) THEN <<>>
    ELSE IF StartsAt(s, old, i) THEN ReplaceFrom(s, old, i + Len(old))
    ELSE <<s[i]>> \o ReplaceFrom(s, old, i + 1)

replace(s, old) == ReplaceFrom(s, old, 1)

----------------------------------------------------------------------------
(* The download directory *)

NoPath == <<>>

exists(f, p) == p \in DOMAIN f

getsize(f, p) == f[p].size

Remove(f, p) == [q \in (DOMAIN f) \ {p} |-> f[q]]

\* open(p, 'wb') ... write: creates or overwrites the file at p
Write(f, p, file) == [q \in (DOMAIN f) \cup {p} |-> IF q = p THEN file ELSE f[q]]

\* os.remove: raises FileNotFoundError when there is no file at p
os_remove(f, p) ==
    IF exists(f, p) THEN [fs |-> Remove(f, p), raised |-> FALSE]
    ELSE [fs |-> f, raised |-> TRUE]

\* A clean_up with neither the existence test nor the try/except.
clean_up_unguarded(f, p) == os_remove(f, p)

\* try: if os.path.exists(p): os.remove(p)   except Exception: log
YouTubeDownloader_clean_up(f, p) ==
    LET r == IF exists(f, p) THEN os_remove(f, p) ELSE [fs |-> f, raised |-> FALSE]
    IN  IF r.raised THEN [fs |-> f, raised |-> FALSE] ELSE r

SaavnDownloader_clean_up(f, p) ==
    LET r == IF exists(f, p) THEN os_remove(f, p) ELSE [fs |-> f, raised |-> FALSE]
    IN  IF r.raised THEN [fs |-> f, raised |-> FALSE] ELSE r

----------------------------------------------------------------------------
(* SaavnDownloader.download_song: the filename *)

Letters == {"a","b","c","d","e","f","g","h","i","j","k","l","m","n","o","p","q",
            "r","s","t","u","v","w","x","y","z","A","Z"}
Digits == {"0","1","2","3","4","5","6","7","8","9"}
Whitespace == {" ", "\t", "\n"}

isalpha(c) == c \in Letters
isdigit(c) == c \in Digits

\* "".join([c for c in s if c.isalpha() or c.isdigit() or c == ' '])
RECURSIVE keep(_)
keep(s) ==
    IF Len(s) = 0 THEN <<>>
    ELSE IF isalpha(Head(s)) \/ isdigit(Head(s)) \/ Head(s) = " "
         THEN <<Head(s)>> \o keep(Tail(s))
         ELSE keep(Tail(s))

\* Python: s.rstrip()
RECURSIVE rstrip(_)
rstrip(s) ==
    IF Len(s) = 0 THEN s
    ELSE IF s[Len(s)] \in Whitespace THEN rstrip(SubSeq(s, 1, Len(s) - 1))
    ELSE s

\* The sanitiser without the trailing rstrip().
safe_name_no_rstrip(s) == keep(s)

safe_name(s) == rstrip(keep(s))

DASH == <<" ", "-", " ">>
DOT_MP3 == <<".", "m", "p", "3">>
DOT_MP4 == <<".", "m", "p", "4">>
DOT_WEBM == <<".", "w", "e", "b", "m">>
DOT_M4A == <<".", "m", "4", "a">>
DOT_PART == <<".", "p", "a", "r", "t">>

\* f"{safe_title} - {safe_artist}.mp3"
filename(title, artist) == safe_name(title) \o DASH \o safe_name(artist) \o DOT_MP3

----------------------------------------------------------------------------
(* Messages of handlers.py and bot.py *)

MSG_NONE == ""
MSG_YT_USAGE == "Please provide a YouTube URL"
MSG_INVALID_YT == "Invalid YouTube URL"
MSG_FETCHING == "Fetching video info..."
MSG_INFO_FAILED == "Failed to fetch video info. Check if the video is available."
MSG_TOO_LONG == "Video too long (max 10 minutes for free tier)"
MSG_SELECT_QUALITY == "Select quality:"
MSG_SV_USAGE == "Please provide a song name or URL"
MSG_SEARCHING == "Searching..."
MSG_FETCH_DETAILS_FAILED == "Failed to fetch song details"
MSG_DOWNLOADING_TITLE == "Downloading title..."
MSG_DOWNLOAD_FAILED == "Download failed"
MSG_NO_RESULTS == "No results found"
MSG_SELECT_SONG == "Select a song:"
MSG_DOWNLOADING_Q == "Downloading in quality... This may take a moment."
MSG_YT_DOWNLOAD_FAILED == "Download failed. Video may be restricted or too large."
MSG_TOO_LARGE == "File too large to send via Telegram (limit: 50MB)"
MSG_SEND_FILE_FAILED == "Failed to send file"
MSG_DOWNLOADING_SONG == "Downloading song..."
MSG_GET_DETAILS_FAILED == "Failed to get song details"
MSG_SEND_AUDIO_FAILED == "Failed to send audio"
MSG_UNSUPPORTED == "Unsupported URL!"
MSG_ERROR == "An error occurred. Please try again later."

----------------------------------------------------------------------------
(* Optional values: None is the empty sequence, a value v is <<v>> *)

None == <<>>
Some(v) == <<v>>

----------------------------------------------------------------------------
(* YouTubeDownloader *)

\* _parse_formats: the progressive formats (video and audio codec), in order
RECURSIVE parse_formats_video(_)
parse_formats_video(formats) ==
    IF Len(formats) = 0 THEN <<>>
    ELSE IF Head(formats).vcodec /\ Head(formats).acodec
         THEN <<[quality |-> Head(formats).quality_label]>>
              \o parse_formats_video(Tail(formats))
         ELSE parse_formats_video(Tail(formats))

\* get_info: None on any extraction error
get_info(u, eng) ==
    IF eng.raises THEN None
    ELSE Some([duration |-> eng.duration,
               video |-> parse_formats_video(eng.formats),
               url |-> u])

\* what the extraction engine may answer to extract_info(url, download=False)
Fmt(v, a, label) == [vcodec |-> v, acodec |-> a, quality_label |-> label]

InfoFormats ==
    { <<>>,
      <<Fmt(TRUE, FALSE, "720p"), Fmt(FALSE, TRUE, "unknown")>>,
      <<Fmt(TRUE, TRUE, "360p"), Fmt(FALSE, TRUE, "unknown")>>,
      <<Fmt(TRUE, TRUE, "720p"), Fmt(TRUE, TRUE, "360p")>> }

InfoDurations == { None, Some(DURATION_LIMIT), Some(DURATION_LIMIT + 1) }

InfoAnswers ==
    { [raises |-> TRUE, duration |-> None, formats |-> <<>>] }
    \cup { [raises |-> FALSE, duration |-> d, formats |-> f] :
             d \in InfoDurations, f \in InfoFormats }

\* os.path.splitext(name)[0]
RECURSIVE splitext_base(_)
splitext_base(name) ==
    IF Len(name) = 0 THEN name
    ELSE IF name[Len(name)] = "." THEN SubSeq(name, 1, Len(name) - 1)
    ELSE IF \A i \in 1..Len(name) : name[i] # "." THEN name
    ELSE splitext_base(SubSeq(name, 1, Len(name) - 1))

\* the quality -> format expression table, with its default
format_spec(q) ==
    IF q = <<"b","e","s","t">> THEN "bestvideo[ext=mp4]+bestaudio[ext=m4a]/best[ext=mp4]/best"
    ELSE IF q = <<"1","0","8","0">> THEN "bestvideo[height<=1080][ext=mp4]+bestaudio[ext=m4a]/best[height<=1080]"
    ELSE IF q = Q720 THEN "bestvideo[height<=720][ext=mp4]+bestaudio[ext=m4a]/best[height<=720]"
    ELSE IF q = Q480 THEN "bestvideo[height<=480][ext=mp4]+bestaudio[ext=m4a]/best[height<=480]"
    ELSE "best[ext=mp4]"

\* ydl_opts['format'] of download
ydl_format(q, audio_only) ==
    IF audio_only \/ q = QAUDIO THEN "bestaudio/best" ELSE format_spec(q)

\* A download that returns the name the engine reported.
output_name_as_reported(reported, q, audio_only) == reported

\* lines 106-111: the name prepare_filename reports, with the extension of an
\* audio request replaced by .mp3
output_name(reported, q, audio_only) ==
    IF audio_only \/ q = QAUDIO THEN splitext_base(reported) \o DOT_MP3 ELSE reported

\* what the engine has written when extract_info(url, download=True) is
\* over: nothing, or a file named title + on_disk
engine_output(f, eng, r) ==
    IF eng.on_disk = <<>> THEN f
    ELSE Write(f, eng.title \o eng.on_disk, [owner |-> r, size |-> eng.size])

\* A download whose exception handler removes what the engine has written.
download_removing(u, q, audio_only, f, eng, r) ==
    IF eng.raises THEN [ret |-> NoPath, fs |-> f]
    ELSE LET f2 == engine_output(f, eng, r)
             name == output_name(eng.title \o eng.reported, q, audio_only)
         IN  [ret |-> IF exists(f2, name) THEN name ELSE NoPath, fs |-> f2]

\* download: eng is what the engine does for extract_info(url, download=True):
\* it raises, having written nothing or a partial file, or it leaves a file
\* named title + on_disk and reports the name title + reported through
\* prepare_filename. The exception handler logs and returns None.
download(u, q, audio_only, f, eng, r) ==
    IF eng.raises THEN [ret |-> NoPath, fs |-> engine_output(f, eng, r)]
    ELSE LET f2 == engine_output(f, eng, r)
             name == output_name(eng.title \o eng.reported, q, audio_only)
         IN  [ret |-> IF exists(f2, name) THEN name ELSE NoPath, fs |-> f2]

VideoTitles == { <<"v">> }
Sizes == { MAX_FILE_SIZE, MAX_FILE_SIZE + 1 }

\* audio requests: FFmpegExtractAudio leaves title.mp3; video requests: the
\* engine leaves the merged or the single-format file
EngineAnswers(audio) ==
    { [raises |-> TRUE, title |-> <<>>, reported |-> <<>>, on_disk |-> <<>>, size |-> 0] }
    \cup { [raises |-> TRUE, title |-> t, reported |-> <<>>, on_disk |-> DOT_MP4 \o DOT_PART,
            size |-> 1] : t \in VideoTitles }
    \cup { [raises |-> FALSE, title |-> t, reported |-> e, on_disk |-> d, size |-> n] :
             t \in VideoTitles,
             e \in (IF audio THEN {DOT_WEBM, DOT_M4A} ELSE {DOT_MP4, DOT_WEBM}),
             d \in (IF audio THEN {DOT_MP3} ELSE {DOT_MP4}),
             n \in Sizes }

----------------------------------------------------------------------------
(* SaavnDownloader *)

COMMA == <<",", " ">>

\* ", ".join([a['name'] for a in artists])
RECURSIVE join_artists(_)
join_artists(names) ==
    IF Len(names) = 0 THEN <<>>
    ELSE IF Len(names) = 1 THEN names[1]
    ELSE names[1] \o COMMA \o join_artists(Tail(names))

\* lines 18-39, the body of the try: requests.get, raise_for_status or
\* json() raises when resp.ok is false; the projection of entry resp.bad
\* raises (an entry that is no mapping, an artist without a name)
search_unguarded(query, resp) ==
    IF ~resp.ok \/ resp.bad \in 1..Len(resp.results)
    THEN [raised |-> TRUE, value |-> <<>>]
    ELSE [raised |-> FALSE,
          value |-> [i \in 1..Len(resp.results) |->
                      [title |-> resp.results[i].name,
                       artist |-> join_artists(resp.results[i].primaryArtists),
                       url |-> resp.results[i].url]]]

\* search: [] on any error, else one projected entry per raw result
search(query, resp) ==
    LET body == search_unguarded(query, resp) IN
    IF body.raised THEN [raised |-> FALSE, value |-> <<>>] ELSE body

\* get_song_details: None on any error or empty data, else the first entry
get_song_details(song_url, resp) ==
    IF ~resp.ok THEN None
    ELSE IF Len(resp.data) > 0
         THEN Some([title |-> resp.data[1].name,
                    artist |-> join_artists(resp.data[1].primaryArtists),
                    download_url |-> resp.data[1].downloadUrl])
         ELSE None

\* The body of _add_metadata's try: raises when tagging fails; tags are not
\* part of the modelled file.
add_metadata_unguarded(f, p, tag_ok) == [raised |-> ~tag_ok, fs |-> f]

\* _add_metadata: any tagging error is logged and swallowed
add_metadata(f, p, tag_ok) ==
    [raised |-> FALSE, fs |-> add_metadata_unguarded(f, p, tag_ok).fs]

\* A size check that also rejects a declared length equal to the ceiling.
declared_too_large_ge(content_length) == content_length >= MAX_FILE_SIZE

\* the check of the declared content-length
declared_too_large(content_length) == content_length > MAX_FILE_SIZE

\* download_song: net is what the song server does
download_song_to(filepath, f, net, r) ==
    IF ~net.connect_ok
    THEN [ret |-> NoPath, fs |-> IF exists(f, filepath) THEN Remove(f, filepath) ELSE f]
    ELSE IF declared_too_large(net.content_length)
    THEN [ret |-> NoPath, fs |-> f]
    ELSE IF ~net.stream_ok
    THEN [ret |-> NoPath, fs |-> Remove(Write(f, filepath, [owner |-> r, size |-> 1]), filepath)]
    ELSE LET written == Write(f, filepath, [owner |-> r, size |-> net.size])
             tagged == add_metadata(written, filepath, net.tag_ok) IN
         \* an exception of line 110 would end in the handler of lines 114-118
         IF tagged.raised
         THEN [ret |-> NoPath, fs |-> Remove(tagged.fs, filepath)]
         ELSE [ret |-> filepath, fs |-> tagged.fs]

download_song(song, f, net, r) ==
    IF ~song.download_url THEN [ret |-> NoPath, fs |-> f]
    ELSE \* the path is derived once, before the try
         CHOOSE res \in { download_song_to(filepath, f, net, r) :
                            filepath \in {filename(song.title, song.artist)} } : TRUE

\* int(response.headers.get('content-length', 0)): 0 when the header is absent
SongServerAnswers ==
    { a \in [connect_ok : BOOLEAN, content_length : {0} \cup Sizes, stream_ok : BOOLEAN,
             size : Sizes, tag_ok : BOOLEAN] :
        \* what is never read is left at one value
        /\ ~a.connect_ok => a.content_length = 0
        /\ (~a.connect_ok \/ a.content_length > MAX_FILE_SIZE) => a.stream_ok
        /\ (~a.connect_ok \/ a.content_length > MAX_FILE_SIZE \/ ~a.stream_ok)
             => (a.size = MAX_FILE_SIZE /\ a.tag_ok) }

\* the server is not contacted for a song without a download URL
SongServerFor(song) ==
    IF song.download_url THEN SongServerAnswers
    ELSE { a \in SongServerAnswers : ~a.connect_ok }

\* the catalogue
Digit(i) == IF i <= 9 THEN <<"0","1","2","3","4","5","6","7","8","9">>[i + 1] ELSE "Z"

SongUrl(i) == SAAVN_COM \o <<"/", "s", "_", Digit(i)>>

RawResult(i) ==
    [name |-> <<"s", Digit(i)>>, primaryArtists |-> << <<"x">> >>,
     url |-> IF i = 2 THEN SAAVN_COM \o <<"/">> \o FORMAT_PREFIX \o <<"x">> ELSE SongUrl(i)]

SearchAnswers ==
    { [ok |-> FALSE, results |-> <<>>, bad |-> 0] }
    \cup { [ok |-> TRUE, results |-> [i \in 1..n |-> RawResult(i)], bad |-> 0] : n \in 0..MaxRaw }
    \cup { [ok |-> TRUE, results |-> [i \in 1..n |-> RawResult(n + 1 - i)], bad |-> 0] :
              n \in {MaxRaw} }
    \cup { [ok |-> TRUE, results |-> [i \in 1..n |-> RawResult(i)], bad |-> n] : n \in {2} }

SongTitles == { <<"a", "/", "b">>, <<"a", "b", " ">> }

DetailAnswers ==
    { [ok |-> FALSE, data |-> <<>>], [ok |-> TRUE, data |-> <<>>] }
    \cup { [ok |-> TRUE,
            data |-> << [name |-> t, primaryArtists |-> << <<"x">>, <<"y">> >>,
                         downloadUrl |-> d] >>] :
             t \in SongTitles, d \in BOOLEAN }

----------------------------------------------------------------------------
(* Requests and the dispatcher of bot.py *)

NewRequest ==
    [pc |-> "idle", url |-> <<>>, quality |-> <<>>, song_data |-> None,
     file_path |-> NoPath, menu |-> <<>>, msg |-> MSG_NONE,
     \* history of the request, read by no handler
     handler |-> "none",      \* the handler that ran last
     info_duration |-> None,  \* the duration of the metadata get_info returned
     details |-> "none",      \* "found" / "notfound": what get_song_details returned
     raw |-> None,            \* the raw results of the answer the menu was built from
     fetched |-> "no",        \* the fetch adapter that was invoked
     size |-> 0,              \* the on-disk size of the artifact when it was returned
     sent |-> "no",           \* "ok" / "fail": how the send of the attachment ended
     artifact |-> NoPath]     \* the path the fetch adapter returned

RestPcs == {"idle", "choice", "returned", "raised"}

\* a handler of request r has started and not yet returned or raised
Active(r) == req[r].pc \notin RestPcs

\* Application.process_update: without concurrent_updates the next update is
\* taken only when the handler of the previous one is over; a blocking call
\* in a coroutine keeps the event loop from running anything else.
Dispatchable == loop = 0 /\ (concurrent_updates \/ \A r \in Req : ~Active(r))

\* the coroutine of r is resumed after an await
Resumable(r) == loop = 0

\* the handler returns: its locals are gone
Returned(s, m) ==
    [s EXCEPT !.pc = "returned", !.msg = m, !.url = <<>>, !.quality = <<>>,
              !.song_data = None, !.file_path = NoPath]

\* An error handler that replies with the text of the exception.
error_handler_with_text(s) ==
    [s EXCEPT !.pc = "raised", !.msg = "An error occurred: TypeError", !.url = <<>>,
              !.quality = <<>>, !.song_data = None, !.file_path = NoPath]

\* the handler raises: error_handler replies to the update's message
error_handler(s) ==
    [s EXCEPT !.pc = "raised", !.msg = MSG_ERROR, !.url = <<>>, !.quality = <<>>,
              !.song_data = None, !.file_path = NoPath]

Set(r, s) == req' = [req EXCEPT ![r] = s]

Harness == UNCHANGED <<cu, codec, fname, route, call>>

\* payloads of the two kinds of button
quality_payload(q, u) == QUALITY_PREFIX \o q \o SEP \o u
format_payload(song_url) == FORMAT_PREFIX \o song_url

\* A decoding that takes the fourth part for the URL and does not rejoin.
quality_decode_no_rejoin(data) ==
    LET parts == split(data) IN
    IF Len(parts) < 4
    THEN [ok |-> FALSE, platform |-> <<>>, quality |-> <<>>, url |-> <<>>]
    ELSE [ok |-> TRUE, platform |-> parts[2], quality |-> parts[3], url |-> parts[4]]

\* quality_callback's decoding of query.data
quality_decode(data) ==
    LET parts == split(data) IN
    IF Len(parts) < 4
    THEN [ok |-> FALSE, platform |-> <<>>, quality |-> <<>>, url |-> <<>>]
    ELSE [ok |-> TRUE, platform |-> parts[2], quality |-> parts[3],
          url |-> join(SubSeq(parts, 4, Len(parts)))]

\* format_selection's decoding of query.data
format_decode(data) == replace(data, FORMAT_PREFIX)

----------------------------------------------------------------------------
(* youtube_handler *)

UrlYt == <<"y","o","u","t","u",".","b","e","/","a","_","b">>
UrlSong == <<"s","a","a","v","n",".","c","o","m","/","s","_","1">>
UrlOther == <<"e","x",".","o","r","g","/","v">>
Tere == <<"t","e","r","e">>
Vaaste == <<"v","a","a","s","t","e">>

\* context.args of a command
CommandArgs == { <<>>, <<UrlYt>>, <<UrlSong>>, <<UrlOther>>, <<Tere, Vaaste>> }

\* update.message.text of a message that is no command
Texts == { UrlYt, UrlSong, UrlOther, Tere }

\* " ".join(context.args)
RECURSIVE join_args(_)
join_args(args) ==
    IF Len(args) = 0 THEN <<>>
    ELSE IF Len(args) = 1 THEN args[1]
    ELSE args[1] \o <<" ">> \o join_args(Tail(args))

\* lines 61-66: the URL check and the "Fetching video info..." reply
youtube_start(s, u) ==
    IF ~Contains(u, YOUTUBE_COM) /\ ~Contains(u, YOUTU_BE)
    THEN Returned([s EXCEPT !.handler = "youtube_handler"], MSG_INVALID_YT)
    ELSE [s EXCEPT !.pc = "yt_get_info", !.url = u, !.msg = MSG_FETCHING,
                   !.handler = "youtube_handler"]

youtube_enter(r, u) == Set(r, youtube_start(req[r], u))

\* lines 55-59: /yt with context.args, no url parameter
youtube_command(s, args) ==
    IF Len(args) = 0
    THEN Returned([s EXCEPT !.handler = "youtube_handler"], MSG_YT_USAGE)
    ELSE youtube_start(s, args[1])

\* /yt
youtube_handler(r) ==
    /\ req[r].pc = "idle" /\ Dispatchable
    /\ \E args \in CommandArgs : Set(r, youtube_command(req[r], args))
    /\ UNCHANGED <<fs, loop>> /\ Harness

\* The keyboard without the audio button.
quality_keyboard_no_audio(info, u) ==
    LET qualities ==
          IF Len(info.video) = 0 THEN <<>>
          ELSE IF \E i \in 1..Len(info.video) : info.video[i].quality = "720p"
               THEN <<Q720, Q480>> ELSE <<Q480>>
    IN  [i \in 1..Len(qualities) |-> quality_payload(qualities[i], u)]

\* lines 79-90: the keyboard
quality_keyboard(info, u) ==
    LET qualities ==
          IF Len(info.video) = 0 THEN <<>>
          ELSE IF \E i \in 1..Len(info.video) : info.video[i].quality = "720p"
               THEN <<Q720, Q480>> ELSE <<Q480>>
    IN  [i \in 1..Len(qualities) |-> quality_payload(qualities[i], u)]
        \o <<quality_payload(QAUDIO, u)>>

\* The duration gate with the limit taken for minutes.
too_long_minutes(duration) == duration # None /\ duration[1] > DURATION_LIMIT * 60

\* line 75: info['duration'] and info['duration'] > 600
too_long(duration) == duration # None /\ duration[1] > DURATION_LIMIT

\* line 69: the call of get_info starts
youtube_get_info_begin(r) ==
    /\ req[r].pc = "yt_get_info" /\ Resumable(r)
    /\ Set(r, [req[r] EXCEPT !.pc = "yt_in_get_info"])
    /\ loop' = r
    /\ UNCHANGED fs /\ Harness

\* lines 69-101: get_info answers; the gate, the keyboard and the menu text
youtube_get_info_end(r) ==
    /\ req[r].pc = "yt_in_get_info" /\ loop = r
    /\ \E eng \in InfoAnswers :
         \E info \in {get_info(req[r].url, eng)} :
         IF info = None
         THEN Set(r, Returned(req[r], MSG_INFO_FAILED))
         ELSE LET s == [req[r] EXCEPT !.info_duration = info[1].duration] IN
              IF too_long(info[1].duration)
              THEN Set(r, Returned(s, MSG_TOO_LONG))
              ELSE IF info[1].duration = None
              THEN \* line 97: None // 60 raises TypeError before edit_text is called
                   Set(r, error_handler(s))
              ELSE Set(r, [s EXCEPT !.pc = "choice", !.url = <<>>,
                                    !.menu = quality_keyboard(info[1], req[r].url),
                                    !.msg = MSG_SELECT_QUALITY])
    /\ loop' = 0
    /\ UNCHANGED fs /\ Harness

----------------------------------------------------------------------------
(* saavn_handler *)

\* songs shown in a menu: results[:5]
first_results(results) ==
    SubSeq(results, 1, IF Len(results) < MENU_LIMIT THEN Len(results) ELSE MENU_LIMIT)

\* A menu that shows every result.
song_keyboard_unsliced(results) ==
    [i \in 1..Len(results) |-> format_payload(results[i].url)]

\* lines 147-152: one button per song of results[:5]
song_keyboard(results) ==
    [i \in 1..Len(first_results(results)) |-> format_payload(first_results(results)[i].url)]

\* line 111: the "Searching..." reply
saavn_start(s, query) ==
    [s EXCEPT !.pc = "sv_lookup", !.url = query, !.msg = MSG_SEARCHING,
              !.handler = "saavn_handler"]

saavn_enter(r, query) == Set(r, saavn_start(req[r], query))

\* lines 105-109: /saavn with context.args, no query parameter
saavn_command(s, args) ==
    IF Len(args) = 0
    THEN Returned([s EXCEPT !.handler = "saavn_handler"], MSG_SV_USAGE)
    ELSE saavn_start(s, join_args(args))

\* /saavn
saavn_handler(r) ==
    /\ req[r].pc = "idle" /\ Dispatchable
    /\ \E args \in CommandArgs : Set(r, saavn_command(req[r], args))
    /\ UNCHANGED <<fs, loop>> /\ Harness

is_saavn_url(query) == Contains(query, JIOSAAVN_COM) \/ Contains(query, SAAVN_COM)

\* line 116 or 142: the call of get_song_details or of search starts
saavn_lookup_begin(r) ==
    /\ req[r].pc = "sv_lookup" /\ Resumable(r)
    /\ Set(r, [req[r] EXCEPT !.pc = IF is_saavn_url(req[r].url)
                                    THEN "sv_in_details" ELSE "sv_in_search"])
    /\ loop' = r
    /\ UNCHANGED fs /\ Harness

\* lines 116-121: get_song_details answers
saavn_details_end(r) ==
    /\ req[r].pc = "sv_in_details" /\ loop = r
    /\ \E resp \in DetailAnswers :
         \E song \in {get_song_details(req[r].url, resp)} :
         IF song = None
         THEN Set(r, Returned([req[r] EXCEPT !.details = "notfound"],
                              MSG_FETCH_DETAILS_FAILED))
         ELSE Set(r, [req[r] EXCEPT !.pc = "sv_download", !.song_data = song,
                                    !.details = "found",
                                    !.msg = MSG_DOWNLOADING_TITLE])
    /\ loop' = 0
    /\ UNCHANGED fs /\ Harness

\* line 123: the call of download_song starts
saavn_download_begin(r) ==
    /\ req[r].pc = "sv_download" /\ Resumable(r)
    /\ Set(r, [req[r] EXCEPT !.pc = "sv_in_download", !.fetched = "download_song"])
    /\ loop' = r
    /\ UNCHANGED fs /\ Harness

\* saavn_handler with the size gate of quality_callback before the send.
saavn_download_end_checked(r) ==
    /\ req[r].pc = "sv_in_download" /\ loop = r
    /\ \E net \in SongServerFor(req[r].song_data[1]) :
         \E res \in {download_song(req[r].song_data[1], fs, net, r)} :
         IF res.ret = NoPath
         THEN /\ fs' = res.fs
              /\ Set(r, Returned(req[r], MSG_DOWNLOAD_FAILED))
         ELSE IF getsize(res.fs, res.ret) > MAX_FILE_SIZE
         THEN /\ fs' = SaavnDownloader_clean_up(res.fs, res.ret).fs
              /\ Set(r, Returned([req[r] EXCEPT !.artifact = res.ret,
                                                !.size = getsize(res.fs, res.ret)],
                                  MSG_TOO_LARGE))
         ELSE /\ fs' = res.fs
              /\ Set(r, [req[r] EXCEPT !.pc = "sv_send", !.url = <<>>, !.file_path = res.ret,
                                       !.artifact = res.ret,
                                       !.size = getsize(res.fs, res.ret)])
    /\ loop' = 0
    /\ Harness

\* lines 123-136: download_song answers; the file is opened and the send awaited
saavn_download_end(r) ==
    /\ req[r].pc = "sv_in_download" /\ loop = r
    /\ \E net \in SongServerFor(req[r].song_data[1]) :
         \E res \in {download_song(req[r].song_data[1], fs, net, r)} :
         /\ fs' = res.fs
         /\ IF res.ret = NoPath
            THEN Set(r, Returned(req[r], MSG_DOWNLOAD_FAILED))
            ELSE Set(r, [req[r] EXCEPT !.pc = "sv_send", !.url = <<>>, !.file_path = res.ret,
                                       !.artifact = res.ret,
                                       !.size = getsize(res.fs, res.ret)])
    /\ loop' = 0
    /\ Harness

\* lines 130-139: reply_audio is over; no try around it in this handler
saavn_send_end(r) ==
    /\ req[r].pc = "sv_send" /\ Resumable(r)
    /\ \E ok \in BOOLEAN :
         IF ok
         THEN /\ fs' = SaavnDownloader_clean_up(fs, req[r].file_path).fs
              /\ Set(r, Returned([req[r] EXCEPT !.sent = "ok"], MSG_NONE))
         ELSE /\ fs' = fs
              /\ Set(r, error_handler([req[r] EXCEPT !.sent = "fail"]))
    /\ UNCHANGED loop /\ Harness

\* lines 142-155: search answers
saavn_search_end(r) ==
    /\ req[r].pc = "sv_in_search" /\ loop = r
    /\ \E resp \in SearchAnswers :
         \E res \in {search(req[r].url, resp)} :
         LET results == res.value
             \* the raw results of an answer that was read without error
             s == [req[r] EXCEPT !.raw = IF resp.ok /\ resp.bad = 0
                                         THEN Some(resp.results) ELSE None] IN
         IF res.raised
         THEN Set(r, error_handler(req[r]))
         ELSE IF Len(results) = 0
         THEN Set(r, Returned(s, MSG_NO_RESULTS))
         ELSE Set(r, [s EXCEPT !.pc = "choice", !.url = <<>>,
                               !.menu = song_keyboard(results),
                               !.msg = MSG_SELECT_SONG])
    /\ loop' = 0
    /\ UNCHANGED fs /\ Harness

----------------------------------------------------------------------------
(* handle_url *)

\* handle_url with the test for the song site first.
route_text_saavn_first(s, text) ==
    IF Contains(text, JIOSAAVN_COM) \/ Contains(text, SAAVN_COM)
    THEN saavn_start(s, text)
    ELSE IF Contains(text, YOUTUBE_COM) \/ Contains(text, YOUTU_BE)
    THEN youtube_start(s, text)
    ELSE Returned([s EXCEPT !.handler = "handle_url"], MSG_UNSUPPORTED)

\* lines 65-78: the handler is called with the text as its url / query
route_text(s, text) ==
    IF Contains(text, YOUTUBE_COM) \/ Contains(text, YOUTU_BE)
    THEN youtube_start(s, text)
    ELSE IF Contains(text, JIOSAAVN_COM) \/ Contains(text, SAAVN_COM)
    THEN saavn_start(s, text)
    ELSE Returned([s EXCEPT !.handler = "handle_url"], MSG_UNSUPPORTED)

handle_url(r) ==
    /\ req[r].pc = "idle" /\ Dispatchable
    /\ \E text \in Texts : Set(r, route_text(req[r], text))
    /\ UNCHANGED <<fs, loop>> /\ Harness

----------------------------------------------------------------------------
(* quality_callback *)

\* lines 159-170: a button with a quality_ payload is pressed
quality_callback(r) ==
    /\ req[r].pc = "choice" /\ Dispatchable
    /\ \E i \in 1..Len(req[r].menu) :
         LET data == req[r].menu[i]
             d == quality_decode(data) IN
         /\ StartsAt(data, QUALITY_PATTERN, 1)
         /\ IF ~d.ok
            THEN \* line 164: a bare return, the keyboard stays
                 Set(r, [req[r] EXCEPT !.handler = "quality_callback"])
            ELSE Set(r, [req[r] EXCEPT !.pc = "qc_download", !.quality = d.quality,
                                       !.url = d.url, !.menu = <<>>,
                                       !.handler = "quality_callback",
                                       !.msg = MSG_DOWNLOADING_Q])
    /\ UNCHANGED <<fs, loop>> /\ Harness

\* line 174: the call of download starts
quality_download_begin(r) ==
    /\ req[r].pc = "qc_download" /\ Resumable(r)
    /\ Set(r, [req[r] EXCEPT !.pc = "qc_in_download", !.fetched = "download"])
    /\ loop' = r
    /\ UNCHANGED fs /\ Harness

\* The size gate with >= in place of >.
too_large_ge(size) == size >= MAX_FILE_SIZE

\* line 182
too_large(size) == size > MAX_FILE_SIZE

\* lines 173-194: download answers; the size gate; the file is opened and the
\* send awaited
quality_download_end(r) ==
    /\ req[r].pc = "qc_in_download" /\ loop = r
    /\ LET audio_only == (req[r].quality = QAUDIO) IN
       \E eng \in EngineAnswers(audio_only) :
         \E res \in {download(req[r].url, req[r].quality, audio_only, fs, eng, r)} :
         IF res.ret = NoPath
         THEN /\ fs' = res.fs
              /\ Set(r, Returned(req[r], MSG_YT_DOWNLOAD_FAILED))
         ELSE IF too_large(getsize(res.fs, res.ret))
         THEN /\ fs' = YouTubeDownloader_clean_up(res.fs, res.ret).fs
              /\ Set(r, Returned([req[r] EXCEPT !.artifact = res.ret,
                                                !.size = getsize(res.fs, res.ret)],
                                  MSG_TOO_LARGE))
         ELSE /\ fs' = res.fs
              /\ Set(r, [req[r] EXCEPT !.pc = "qc_send", !.url = <<>>, !.file_path = res.ret,
                                       !.artifact = res.ret,
                                       !.size = getsize(res.fs, res.ret)])
    /\ loop' = 0
    /\ Harness

\* quality_callback fetching again after a failed send.
quality_send_end_retry(r) ==
    /\ req[r].pc = "qc_send" /\ Resumable(r)
    /\ \E ok \in BOOLEAN :
         IF ok
         THEN /\ fs' = YouTubeDownloader_clean_up(fs, req[r].file_path).fs
              /\ Set(r, Returned([req[r] EXCEPT !.sent = "ok"], MSG_NONE))
         ELSE /\ fs' = fs
              /\ Set(r, [req[r] EXCEPT !.pc = "qc_download", !.sent = "fail"])
    /\ UNCHANGED loop /\ Harness

\* lines 188-200: reply_audio / reply_video is over
quality_send_end(r) ==
    /\ req[r].pc = "qc_send" /\ Resumable(r)
    /\ \E ok \in BOOLEAN :
         IF ok
         THEN /\ fs' = YouTubeDownloader_clean_up(fs, req[r].file_path).fs
              /\ Set(r, Returned([req[r] EXCEPT !.sent = "ok"], MSG_NONE))
         ELSE /\ fs' = fs
              /\ Set(r, Returned([req[r] EXCEPT !.sent = "fail"], MSG_SEND_FILE_FAILED))
    /\ UNCHANGED loop /\ Harness

----------------------------------------------------------------------------
(* format_selection *)

\* lines 204-209: a button with a format_ payload is pressed
format_selection(r) ==
    /\ req[r].pc = "choice" /\ Dispatchable
    /\ \E i \in 1..Len(req[r].menu) :
         LET data == req[r].menu[i] IN
         /\ ~StartsAt(data, QUALITY_PATTERN, 1)
         /\ StartsAt(data, FORMAT_PATTERN, 1)
         /\ Set(r, [req[r] EXCEPT !.pc = "fs_fetch", !.url = format_decode(data),
                                  !.menu = <<>>, !.raw = None,
                                  !.handler = "format_selection",
                                  !.msg = MSG_DOWNLOADING_SONG])
    /\ UNCHANGED <<fs, loop>> /\ Harness

\* line 211: the call of get_song_details starts
format_fetch_begin(r) ==
    /\ req[r].pc = "fs_fetch" /\ Resumable(r)
    /\ Set(r, [req[r] EXCEPT !.pc = "fs_in_fetch"])
    /\ loop' = r
    /\ UNCHANGED fs /\ Harness

\* format_selection without the return after the failed lookup: download_song
\* is called with None and raises.
format_fetch_end_no_return(r) ==
    /\ req[r].pc = "fs_in_fetch" /\ loop = r
    /\ \E resp \in DetailAnswers :
         \E song \in {get_song_details(req[r].url, resp)} :
         IF song = None
         THEN /\ loop' = 0
              /\ Set(r, error_handler([req[r] EXCEPT !.details = "notfound",
                                                     !.fetched = "download_song"]))
         ELSE /\ loop' = r
              /\ Set(r, [req[r] EXCEPT !.pc = "fs_in_download", !.url = <<>>,
                                       !.song_data = song, !.details = "found",
                                       !.fetched = "download_song"])
    /\ UNCHANGED fs /\ Harness

\* lines 211-214: get_song_details answers; download_song follows with no
\* await between them, so the event loop stays with this handler
format_fetch_end(r) ==
    /\ req[r].pc = "fs_in_fetch" /\ loop = r
    /\ \E resp \in DetailAnswers :
         \E song \in {get_song_details(req[r].url, resp)} :
         IF song = None
         THEN /\ loop' = 0
              /\ Set(r, Returned([req[r] EXCEPT !.details = "notfound"],
                                  MSG_GET_DETAILS_FAILED))
         ELSE /\ loop' = r
              /\ Set(r, [req[r] EXCEPT !.pc = "fs_in_download", !.url = <<>>,
                                       !.song_data = song, !.details = "found",
                                       !.fetched = "download_song"])
    /\ UNCHANGED fs /\ Harness

\* lines 216-228: download_song answers; the file is opened and the send awaited
format_download_end(r) ==
    /\ req[r].pc = "fs_in_download" /\ loop = r
    /\ \E net \in SongServerFor(req[r].song_data[1]) :
         \E res \in {download_song(req[r].song_data[1], fs, net, r)} :
         /\ fs' = res.fs
         /\ IF res.ret = NoPath
            THEN Set(r, Returned(req[r], MSG_DOWNLOAD_FAILED))
            ELSE Set(r, [req[r] EXCEPT !.pc = "fs_send", !.file_path = res.ret,
                                       !.artifact = res.ret,
                                       !.size = getsize(res.fs, res.ret)])
    /\ loop' = 0
    /\ Harness

\* lines 221-234: reply_audio is over
format_send_end(r) ==
    /\ req[r].pc = "fs_send" /\ Resumable(r)
    /\ \E ok \in BOOLEAN :
         IF ok
         THEN /\ fs' = SaavnDownloader_clean_up(fs, req[r].file_path).fs
              /\ Set(r, Returned([req[r] EXCEPT !.sent = "ok"], MSG_NONE))
         ELSE /\ fs' = fs
              /\ Set(r, Returned([req[r] EXCEPT !.sent = "fail"], MSG_SEND_AUDIO_FAILED))
    /\ UNCHANGED loop /\ Harness

----------------------------------------------------------------------------
(* The state after construction: no update handled yet, an empty directory *)

NoName == [derived |-> FALSE, title |-> <<>>, artist |-> <<>>, name |-> <<>>]

NoCodec ==
    [kind |-> "none", quality |-> <<>>, url |-> <<>>, data |-> <<>>, ok |-> FALSE,
     platform |-> <<>>, dquality |-> <<>>, durl |-> <<>>]

NoCleanUp ==
    [called |-> FALSE, class |-> "none", path |-> NoPath, before |-> << >>,
     raised |-> FALSE, again |-> FALSE]

NoRoute == [done |-> FALSE, text |-> <<>>, out |-> NewRequest, yt |-> NewRequest,
            saavn |-> NewRequest]

NoCall == [op |-> "none"]

Init ==
    /\ req = [r \in Req |-> NewRequest]
    /\ fs = << >>
    /\ loop = 0
    /\ cu = NoCleanUp
    /\ codec = NoCodec
    /\ fname = NoName
    /\ route = NoRoute
    /\ call = NoCall

----------------------------------------------------------------------------
(* clean_up called on its own, on any directory and any path *)


CleanUpPaths ==
    { <<"v">> \o DOT_MP3, <<"v">> \o DOT_MP4, filename(<<"a", "/", "b">>, <<"x">>) }

\* every directory over CleanUpPaths
Directories ==
    UNION { [P -> [owner : {1}, size : Sizes]] : P \in SUBSET CleanUpPaths }

clean_up_call ==
    \E class \in {"YouTubeDownloader", "SaavnDownloader"}, p \in CleanUpPaths :
        LET res == IF class = "YouTubeDownloader"
                   THEN YouTubeDownloader_clean_up(fs, p)
                   ELSE SaavnDownloader_clean_up(fs, p) IN
        /\ fs' = res.fs
        /\ cu' = [called |-> TRUE, class |-> class, path |-> p, before |-> fs,
                  raised |-> res.raised,
                  again |-> cu.called /\ cu.path = p]
        /\ UNCHANGED <<req, loop, codec, fname, route, call>>

InitCleanUp ==
    /\ req = [r \in Req |-> NewRequest]
    /\ fs \in Directories
    /\ loop = 0
    /\ cu = NoCleanUp
    /\ codec = NoCodec
    /\ fname = NoName
    /\ route = NoRoute
    /\ call = NoCall

NextCleanUp == clean_up_call

SpecCleanUp == InitCleanUp /\ [][NextCleanUp]_vars

----------------------------------------------------------------------------
(* The payload codec on its own: encode as the handler that builds the menu,
   decode as the handler of the callback *)

\* every text of at most n pieces of A, the pieces concatenated
RECURSIVE Texts_of(_, _)
Texts_of(A, n) ==
    IF n = 0 THEN { <<>> }
    ELSE LET shorter == Texts_of(A, n - 1) IN
         shorter \cup { a \o t : a \in A, t \in shorter }

\* URLs youtube_handler accepts: they hold youtu.be
VideoUrls == { YOUTU_BE \o <<"/">> \o t : t \in Texts_of({ <<"a">>, <<"_">>, <<"=">> }, MaxLen) }

\* URLs of songs as the catalogue may give them
SongUrls ==
    { SAAVN_COM \o <<"/">> \o t : t \in Texts_of({ <<"a">>, <<"_">>, FORMAT_PREFIX }, MaxLen) }

quality_round_trip ==
    /\ codec.kind = "none"
    /\ \E q \in {Q720, Q480, QAUDIO}, u \in VideoUrls :
        LET data == quality_payload(q, u)
            d == quality_decode(data) IN
        /\ codec' = [kind |-> "quality", quality |-> q, url |-> u, data |-> data,
                     ok |-> d.ok, platform |-> d.platform, dquality |-> d.quality,
                     durl |-> d.url]
        /\ UNCHANGED <<req, fs, loop, cu, fname, route, call>>

format_round_trip ==
    /\ codec.kind = "none"
    /\ \E u \in SongUrls :
        LET data == format_payload(u) IN
        /\ codec' = [kind |-> "format", quality |-> <<>>, url |-> u, data |-> data,
                     ok |-> TRUE, platform |-> <<>>, dquality |-> <<>>,
                     durl |-> format_decode(data)]
        /\ UNCHANGED <<req, fs, loop, cu, fname, route, call>>

NextCodec == quality_round_trip \/ format_round_trip

SpecCodec == Init /\ [][NextCodec]_vars

----------------------------------------------------------------------------
(* The filename of download_song on its own *)

NameAlphabet == { <<"a">>, <<"7">>, <<" ">>, <<"/">> }

NameTexts == Texts_of(NameAlphabet, MaxLen)

derive_filename ==
    /\ ~fname.derived
    /\ \E t \in NameTexts, a \in NameTexts :
        /\ fname' = [derived |-> TRUE, title |-> t, artist |-> a, name |-> filename(t, a)]
        /\ UNCHANGED <<req, fs, loop, cu, codec, route, call>>

NextName == derive_filename

SpecName == Init /\ [][NextName]_vars

----------------------------------------------------------------------------
(* handle_url on its own: any free text, next to the two commands given the
   text as their one argument *)

RoutePieces == { YOUTU_BE, YOUTUBE_COM, SAAVN_COM, JIOSAAVN_COM, <<"a">>, <<" ">> }

\* filters.TEXT: the text of a message is never empty
FreeTexts == Texts_of(RoutePieces, MaxLen) \ { <<>> }

route_free_text ==
    /\ ~route.done
    /\ \E text \in FreeTexts :
        /\ route' = [done |-> TRUE, text |-> text,
                      out |-> route_text(NewRequest, text),
                      yt |-> youtube_command(NewRequest, <<text>>),
                      saavn |-> saavn_command(NewRequest, <<text>>)]
        /\ UNCHANGED <<req, fs, loop, cu, codec, fname, call>>

NextRoute == route_free_text

SpecRoute == Init /\ [][NextRoute]_vars

----------------------------------------------------------------------------
(* The adapter methods on their own, on any answer of the service *)

\* every answer of the search endpoint: a failure, or up to MaxRaw results in
\* either order, one of which may be malformed
SearchResponses ==
    { [ok |-> FALSE, results |-> <<>>, bad |-> 0] }
    \cup { [ok |-> TRUE, results |-> [i \in 1..n |-> RawResult(i)], bad |-> b] :
              n \in 0..MaxRaw, b \in 0..MaxRaw }
    \cup { [ok |-> TRUE, results |-> [i \in 1..n |-> RawResult(n + 1 - i)], bad |-> b] :
              n \in 0..MaxRaw, b \in 0..MaxRaw }

search_call ==
    /\ call.op = "none"
    /\ \E resp \in SearchResponses :
        LET res == search(Tere, resp) IN
        /\ call' = [op |-> "search", resp |-> resp, raised |-> res.raised, ret |-> res.value]
        /\ UNCHANGED <<req, fs, loop, cu, codec, fname, route>>

\* the songs get_song_details can return
Songs == { get_song_details(UrlSong, resp)[1] : resp \in { a \in DetailAnswers : Len(a.data) > 0 } }

AdapterPaths ==
    { filename(song.title, song.artist) : song \in Songs } \cup { <<"v">> \o DOT_MP4 }

\* the download directory before the call: files of an earlier request
AdapterDirectories ==
    UNION { [P -> [owner : {2}, size : {MAX_FILE_SIZE}]] : P \in SUBSET AdapterPaths }

download_song_call ==
    /\ call.op = "none"
    /\ \E before \in AdapterDirectories, song \in Songs :
        \E net \in SongServerFor(song) :
        \E res \in {download_song(song, before, net, 1)} :
        /\ fs' = res.fs
        /\ call' = [op |-> "download_song", song |-> song, net |-> net, before |-> before,
                    path |-> filename(song.title, song.artist), ret |-> res.ret]
        /\ UNCHANGED <<req, loop, cu, codec, fname, route>>

\* quality selectors of the table, the audio selector, and one outside both
QualityArguments == { <<"b","e","s","t">>, Q720, QAUDIO, <<"3","6","0">> }

download_call ==
    /\ call.op = "none"
    /\ \E before \in AdapterDirectories, q \in QualityArguments, audio_only \in BOOLEAN :
        \E eng \in EngineAnswers(audio_only \/ q = QAUDIO) :
        \E res \in {download(UrlYt, q, audio_only, before, eng, 1)} :
        /\ fs' = res.fs
        /\ call' = [op |-> "download", quality |-> q, audio_only |-> audio_only,
                    format |-> ydl_format(q, audio_only), eng |-> eng, before |-> before,
                    ret |-> res.ret]
        /\ UNCHANGED <<req, loop, cu, codec, fname, route>>

NextAdapters == search_call \/ download_song_call \/ download_call

SpecAdapters == Init /\ [][NextAdapters]_vars

----------------------------------------------------------------------------
(* The bot *)

Next ==
    \E r \in Req :
        \/ youtube_handler(r)
        \/ youtube_get_info_begin(r)
        \/ youtube_get_info_end(r)
        \/ saavn_handler(r)
        \/ saavn_lookup_begin(r)
        \/ saavn_details_end(r)
        \/ saavn_download_begin(r)
        \/ saavn_download_end(r)
        \/ saavn_send_end(r)
        \/ saavn_search_end(r)
        \/ handle_url(r)
        \/ quality_callback(r)
        \/ quality_download_begin(r)
        \/ quality_download_end(r)
        \/ quality_send_end(r)
        \/ format_selection(r)
        \/ format_fetch_begin(r)
        \/ format_fetch_end(r)
        \/ format_download_end(r)
        \/ format_send_end(r)

Spec == Init /\ [][Next]_vars

----------------------------------------------------------------------------
(* Vocabulary of the properties *)

\* the handler of the request is over and no menu is left to answer
Terminal(r) == req[r].pc \in {"returned", "raised"}

Done(r) == req[r].pc = "returned" /\ req[r].sent = "ok"

Failed(r) == Terminal(r) /\ req[r].sent # "ok"

\* the file this request's fetch wrote is still in the download directory
HoldsArtifact(r) ==
    /\ req[r].artifact # NoPath
    /\ exists(fs, req[r].artifact)
    /\ fs[req[r].artifact].owner = r

\* a blocking network call of r is in progress
InNetworkCall(r) == loop = r

Min(a, b) == IF a < b THEN a ELSE b

\* the states of a request: 0 Idle, 1 MetadataFetching, 2 ChoicePresented,
\* 3 Fetching, 4 Delivering, 5 Done or Failed
Phase(r) ==
    LET pc == req[r].pc IN
    IF pc = "idle" THEN 0
    ELSE IF pc \in {"yt_get_info", "yt_in_get_info", "sv_lookup", "sv_in_details",
                    "sv_in_search"} THEN 1
    ELSE IF pc = "choice" THEN 2
    ELSE IF pc \in {"sv_download", "sv_in_download", "qc_download", "qc_in_download",
                    "fs_fetch", "fs_in_fetch", "fs_in_download"} THEN 3
    ELSE IF pc \in {"sv_send", "qc_send", "fs_send"} THEN 4
    ELSE 5

\* the handler of r is at a point where an outcome is decided: a command or
\* text is about to be taken, a lookup or a fetch is answering, a send is over
Deciding(r) ==
    \/ req[r].pc = "idle" /\ Dispatchable
    \/ req[r].pc \in {"yt_in_get_info", "sv_in_details", "sv_in_search", "sv_in_download",
                      "qc_in_download", "fs_in_fetch", "fs_in_download"} /\ loop = r
    \/ req[r].pc \in {"sv_send", "qc_send", "fs_send"} /\ Resumable(r)

\* a step of r's handler that ends the request Failed
FailingStep(r) ==
    /\ \/ youtube_handler(r) \/ saavn_handler(r) \/ handle_url(r)
       \/ youtube_get_info_end(r) \/ saavn_details_end(r) \/ saavn_search_end(r)
       \/ saavn_download_end(r) \/ quality_download_end(r)
       \/ format_fetch_end(r) \/ format_download_end(r)
       \/ saavn_send_end(r) \/ quality_send_end(r) \/ format_send_end(r)
    /\ req'[r].pc \in {"returned", "raised"}
    /\ req'[r].sent # "ok"

----------------------------------------------------------------------------
(* Properties *)

\* C1: once the handler of a request that obtained an artifact has returned
\* or raised, the artifact file no longer exists, on every exit path.
C1_ArtifactGoneAfterHandler ==
    \A r \in Req :
        (Terminal(r) /\ req[r].artifact # NoPath) => ~HoldsArtifact(r)

\* C2: a video request whose metadata has a duration over 600 seconds ends
\* Failed with the "too long" reply; download is never invoked for it and no
\* menu is presented.
C2_DurationGate ==
    \A r \in Req :
        (req[r].info_duration # None /\ req[r].info_duration[1] > DURATION_LIMIT)
        => /\ Failed(r)
           /\ req[r].msg = MSG_TOO_LONG
           /\ req[r].fetched = "no"
           /\ req[r].menu = <<>>
           /\ req[r].artifact = NoPath

C2_Witness ==
    \E r \in Req :
        /\ req[r].info_duration = Some(DURATION_LIMIT + 1)
        /\ req[r].pc = "returned"

\* C3: a video artifact larger than MAX_FILE_SIZE is deleted, the request
\* reports the size rejection, no send is attempted and the request never
\* is Done; an artifact of exactly MAX_FILE_SIZE is not rejected.
C3_SizeGate ==
    \A r \in Req :
        (req[r].fetched = "download" /\ req[r].artifact # NoPath)
        => /\ req[r].size > MAX_FILE_SIZE
              => /\ req[r].pc = "returned"
                 /\ req[r].msg = MSG_TOO_LARGE
                 /\ req[r].sent = "no"
                 /\ ~Done(r)
                 /\ ~HoldsArtifact(r)
           /\ req[r].size <= MAX_FILE_SIZE
              => /\ req[r].msg # MSG_TOO_LARGE
                 /\ req[r].pc = "qc_send" \/ req[r].sent # "no"

C3_Witness ==
    \E r1 \in Req, r2 \in Req :
        /\ req[r1].fetched = "download" /\ req[r1].size = MAX_FILE_SIZE + 1
        /\ req[r1].msg = MSG_TOO_LARGE
        /\ req[r2].fetched = "download" /\ req[r2].size = MAX_FILE_SIZE
        /\ Done(r2)

\* C4: decoding the payload quality_yt_{quality}_{url} recovers platform
\* "yt", the quality and exactly the URL, also when the URL holds "_".
C4_QualityRoundTrip ==
    codec.kind = "quality"
    => /\ codec.ok
       /\ codec.platform = <<"y", "t">>
       /\ codec.dquality = codec.quality
       /\ codec.durl = codec.url

C4_Witness ==
    /\ codec.kind = "quality"
    /\ \E i \in 1..Len(codec.url) : codec.url[i] = "_"
    /\ codec.durl = codec.url

\* C5: decoding the payload format_saavn_{songUrl} recovers exactly the song
\* URL, also when the URL holds "_" or the text of the prefix.
C5_FormatRoundTrip ==
    codec.kind = "format" => codec.durl = codec.url

\* C6: while a network call of one request is in progress, the dispatcher
\* can start the handling of another user's pending command.
C6_NoHeadOfLineBlocking ==
    \A r \in Req : \A r2 \in Req \ {r} :
        (InNetworkCall(r) /\ req[r2].pc = "idle")
        => ENABLED (youtube_handler(r2) \/ saavn_handler(r2) \/ handle_url(r2))

\* C7, as stated: whenever get_song_details returns None the reply is
\* "Failed to fetch song details", download_song is not called and there is
\* no artifact, in saavn_handler and in format_selection.
C7_NotFoundAsStated ==
    \A r \in Req :
        req[r].details = "notfound"
        => /\ req[r].msg = MSG_FETCH_DETAILS_FAILED
           /\ req[r].fetched = "no"
           /\ req[r].artifact = NoPath

\* C7, amended: whenever get_song_details returns None the handler returns
\* with the reply "Failed to fetch song details" in saavn_handler and
\* "Failed to get song details" in format_selection; download_song is not
\* called and there is no artifact.
C7_NotFound ==
    \A r \in Req :
        req[r].details = "notfound"
        => /\ req[r].pc = "returned"
           /\ req[r].msg = IF req[r].handler = "saavn_handler"
                           THEN MSG_FETCH_DETAILS_FAILED
                           ELSE MSG_GET_DETAILS_FAILED
           /\ req[r].handler \in {"saavn_handler", "format_selection"}
           /\ req[r].fetched = "no"
           /\ req[r].artifact = NoPath
           /\ ~HoldsArtifact(r)

C7_Witness ==
    \E r1 \in Req, r2 \in Req :
        /\ req[r1].details = "notfound" /\ req[r1].handler = "saavn_handler"
        /\ req[r2].details = "notfound" /\ req[r2].handler = "format_selection"

\* C8: for a search answered with n raw results the menu has min(n, 5)
\* buttons, in the order of the results; with n = 0 there is no menu and the
\* reply is "No results found".
C8_MenuSize ==
    \A r \in Req :
        req[r].raw # None
        => LET raw == req[r].raw[1] IN
           IF Len(raw) = 0
           THEN /\ req[r].pc = "returned"
                /\ req[r].menu = <<>>
                /\ req[r].msg = MSG_NO_RESULTS
           ELSE /\ req[r].pc = "choice"
                /\ req[r].msg = MSG_SELECT_SONG
                /\ Len(req[r].menu) = Min(Len(raw), MENU_LIMIT)
                /\ \A i \in 1..Len(req[r].menu) :
                     req[r].menu[i] = FORMAT_PREFIX \o raw[i].url

C8_Witness ==
    \E r \in Req :
        /\ req[r].raw # None
        /\ Len(req[r].raw[1]) = 7
        /\ Len(req[r].menu) = 5
        /\ req[r].raw[1][1].url # req[r].raw[1][2].url

\* C9: clean_up on a path whose file exists deletes it; called again, or on
\* a path with no file, it changes nothing; it never raises. Both classes.
C9_CleanUpIdempotent ==
    cu.called
    => /\ ~cu.raised
       /\ ~exists(fs, cu.path)
       /\ \A p \in DOMAIN cu.before : p # cu.path => (exists(fs, p) /\ fs[p] = cu.before[p])
       /\ DOMAIN fs \subseteq DOMAIN cu.before
       /\ (~exists(cu.before, cu.path) \/ cu.again) => fs = cu.before

C9_Witness ==
    /\ cu.called /\ cu.again
    /\ fs = cu.before
    /\ cu.class = "SaavnDownloader"
    /\ fs # << >>

\* C10: the filename is "{safe_title} - {safe_artist}.mp3"; each safe
\* component holds only alphanumeric characters and spaces, has no trailing
\* whitespace, and is the input with every other character removed, order
\* kept.
Allowed(c) == c \in Letters \cup Digits \cup {" "}

\* s without its trailing spaces
Trimmed(s) ==
    LET ends == { i \in 0..Len(s) : i = 0 \/ s[i] # " " }
        k == CHOOSE i \in ends : \A j \in ends : j <= i
    IN  SubSeq(s, 1, k)

C10_SafeFilename ==
    fname.derived
    => LET n == fname.name
           dashes == { i \in 1..Len(n) : n[i] = "-" }
       IN  /\ Cardinality(dashes) = 1
           /\ LET k == CHOOSE i \in dashes : TRUE
                  st == SubSeq(n, 1, k - 2)
                  sa == SubSeq(n, k + 2, Len(n) - 4)
              IN  /\ n = st \o <<" ", "-", " ">> \o sa \o <<".", "m", "p", "3">>
                  /\ \A i \in 1..Len(st) : Allowed(st[i])
                  /\ \A i \in 1..Len(sa) : Allowed(sa[i])
                  /\ Len(st) > 0 => st[Len(st)] \notin Whitespace
                  /\ Len(sa) > 0 => sa[Len(sa)] \notin Whitespace
                  /\ st = Trimmed(SelectSeq(fname.title, Allowed))
                  /\ sa = Trimmed(SelectSeq(fname.artist, Allowed))

C10_Witness ==
    /\ fname.derived
    /\ fname.title = <<"a", "/", " ">>
    /\ fname.artist = <<" ", "7", "/">>
    /\ fname.name = <<"a", " ", "-", " ", " ", "7", ".", "m", "p", "3">>

C12_SearchTotal ==
    call.op = "search"
    => LET raw == call.resp.results
           failed == ~call.resp.ok \/ (call.resp.bad >= 1 /\ call.resp.bad <= Len(raw))
       IN  /\ ~call.raised
           /\ failed => call.ret = <<>>
           /\ ~failed => /\ Len(call.ret) = Len(raw)
                         /\ \A i \in 1..Len(raw) :
                              /\ call.ret[i].title = raw[i].name
                              /\ call.ret[i].url = raw[i].url
                              /\ call.ret[i].artist = raw[i].primaryArtists[1]

C12_Witness ==
    /\ call.op = "search" /\ ~call.raised
    /\ Len(call.ret) >= 2
    /\ call.ret[1].url = RawResult(Len(call.ret)).url
    /\ call.ret[1].url # call.ret[2].url

\* C13: a request only moves forward along Idle, MetadataFetching,
\* ChoicePresented, Fetching, Delivering, Done; wherever an outcome is decided
\* (a lookup, a policy gate, a fetch, a send) the request can end Failed;
\* once Done or Failed nothing about the request changes any more.
C13_ForwardOnly ==
    /\ [][\A r \in Req : /\ Phase(r)' >= Phase(r)
                         /\ Terminal(r) => req'[r] = req[r]]_vars
    /\ [](\A r \in Req : Deciding(r) => ENABLED FailingStep(r))

C13_Witness ==
    \E r1 \in Req, r2 \in Req :
        /\ Done(r1) /\ req[r1].handler = "format_selection"
        /\ Failed(r2) /\ req[r2].sent = "fail" /\ req[r2].handler = "quality_callback"

\* C14, as stated: a direct song link goes from the lookup to the fetch with
\* no menu, and a video with a single available quality is not presented as
\* a menu either.
C14_DirectAsStated ==
    \A r \in Req :
        /\ (req[r].handler = "saavn_handler" /\ req[r].details = "found")
           => (req[r].menu = <<>> /\ req[r].raw = None /\ Phase(r) >= 3)
        /\ (req[r].handler = "youtube_handler" /\ req[r].pc = "choice")
           => Len(req[r].menu) > 1

\* C14, amended: a direct song link goes from the lookup to the fetch with no
\* menu; youtube_handler presents a menu for every video with a duration of
\* at most 600 seconds, also when audio is the only option, and fetches
\* nothing itself.
C14_Direct ==
    \A r \in Req :
        /\ (req[r].handler = "saavn_handler" /\ req[r].details = "found")
           => (req[r].menu = <<>> /\ req[r].raw = None /\ Phase(r) >= 3)
        /\ (/\ req[r].handler = "youtube_handler"
            /\ req[r].info_duration # None /\ ~too_long(req[r].info_duration))
           => /\ req[r].pc = "choice"
              /\ Len(req[r].menu) >= 1
              /\ StartsAt(req[r].menu[Len(req[r].menu)], QUALITY_PREFIX \o QAUDIO \o SEP, 1)
              /\ req[r].fetched = "no"

C14_Witness ==
    \E r1 \in Req, r2 \in Req :
        /\ req[r1].handler = "saavn_handler" /\ req[r1].pc = "sv_in_download"
        /\ req[r1].menu = <<>>
        /\ req[r2].handler = "youtube_handler" /\ req[r2].pc = "choice"
        /\ Len(req[r2].menu) = 1

\* C15: requests whose songs normalise to one filename use one path and are
\* in flight together: while one request is about to send, or is sending, its
\* artifact, the handler of another request for such a song can be started,
\* which then overwrites or deletes that file.
C15_SamePathInFlight ==
    \A r1 \in Req : \A r2 \in Req \ {r1} :
        (req[r1].pc \in {"sv_send", "fs_send"} /\ HoldsArtifact(r1))
        => /\ req[r2].pc = "idle" => ENABLED saavn_handler(r2)
           /\ (req[r2].pc = "choice" /\ req[r2].raw # None) => ENABLED format_selection(r2)

\* A fetch that failed with an exception after it had started writing.
StreamingFailed ==
    /\ call.op = "download_song"
    /\ call.song.download_url /\ call.net.connect_ok
    /\ call.net.content_length <= MAX_FILE_SIZE /\ ~call.net.stream_ok

TransferFailed ==
    /\ call.op = "download" /\ call.eng.raises /\ call.eng.on_disk # <<>>

\* C16 as stated: a fetch routine that fails with an exception after it has
\* started writing returns Failure and has deleted the partial file, for
\* download_song and for download alike: what the call wrote is not in the
\* download directory.
C16_NothingLeft ==
    /\ StreamingFailed => (call.ret = NoPath /\ ~exists(fs, call.path))
    /\ TransferFailed
       => (call.ret = NoPath /\ ~exists(fs, call.eng.title \o call.eng.on_disk))

\* C16 amended: download_song, failing while it streams, returns Failure and
\* has removed the file at its path, every other file being as before;
\* download, failing during the engine's transfer, returns Failure and
\* removes nothing: the engine's partial file stays in the download
\* directory beside the files that were there.
C16_PartialFile ==
    /\ StreamingFailed
       => /\ call.ret = NoPath
          /\ ~exists(fs, call.path)
          /\ \A p \in (DOMAIN call.before) \ {call.path} : exists(fs, p) /\ fs[p] = call.before[p]
          /\ DOMAIN fs \subseteq DOMAIN call.before
    /\ TransferFailed
       => /\ call.ret = NoPath
          /\ exists(fs, call.eng.title \o call.eng.on_disk)
          /\ fs[call.eng.title \o call.eng.on_disk].owner = 1
          /\ \A p \in DOMAIN call.before : exists(fs, p) /\ fs[p] = call.before[p]
          /\ DOMAIN fs \subseteq DOMAIN call.before \cup {call.eng.title \o call.eng.on_disk}

C16_Witness ==
    /\ TransferFailed
    /\ call.before # <<>>
    /\ exists(fs, <<"v">> \o DOT_MP4 \o DOT_PART)

\* C17: when the song server declares a content-length greater than the
\* ceiling, download_song returns Failure and the download directory is
\* exactly as it was before the call (nothing written, nothing created); a
\* declared content-length equal to the ceiling is accepted: the body is
\* streamed to the path, and the path is returned when the stream completes.
C17_DeclaredTooLarge ==
    (call.op = "download_song" /\ call.song.download_url /\ call.net.connect_ok)
    => /\ call.net.content_length > MAX_FILE_SIZE
          => (call.ret = NoPath /\ fs = call.before)
       /\ (call.net.content_length = MAX_FILE_SIZE /\ call.net.stream_ok)
          => /\ call.ret = call.path
             /\ exists(fs, call.path)
             /\ fs[call.path] = [owner |-> 1, size |-> call.net.size]
       /\ (call.net.content_length = MAX_FILE_SIZE /\ ~call.net.stream_ok)
          => (call.ret = NoPath /\ ~exists(fs, call.path))

C17_Witness ==
    /\ call.op = "download_song" /\ call.net.connect_ok
    /\ call.net.content_length = MAX_FILE_SIZE + 1
    /\ call.ret = NoPath
    /\ exists(call.before, call.path) /\ fs = call.before

\* C18: with no content-length header (read as 0) download_song returns the
\* path of the streamed file whatever its size, and every artifact
\* download_song returned to saavn_handler or format_selection is handed to
\* the send with no size check in between.
C18_NoSizeCheck ==
    \A r \in Req :
        /\ req[r].pc \in {"sv_in_download", "fs_in_download"}
           => \A net \in SongServerFor(req[r].song_data[1]) :
                (net.connect_ok /\ net.content_length = 0 /\ net.stream_ok)
                => \A res \in {download_song(req[r].song_data[1], fs, net, r)} :
                     /\ res.ret = filename(req[r].song_data[1].title, req[r].song_data[1].artist)
                     /\ exists(res.fs, res.ret)
                     /\ res.fs[res.ret].size = net.size
        /\ (req[r].fetched = "download_song" /\ req[r].artifact # NoPath)
           => (req[r].pc \in {"sv_send", "fs_send"} \/ req[r].sent # "no")

\* an artifact larger than the ceiling is in the Delivering state, in each of
\* the two handlers
C18_Witness ==
    \E r1 \in Req, r2 \in Req :
        /\ req[r1].pc = "sv_send" /\ HoldsArtifact(r1)
        /\ fs[req[r1].artifact].size > MAX_FILE_SIZE
        /\ req[r2].handler = "format_selection" /\ req[r2].sent # "no"
        /\ req[r2].size > MAX_FILE_SIZE

\* C19: download returns a path only when a file exists at that path when it
\* returns, and Failure otherwise; for an audio request (audio_only, or the
\* quality "audio") the path is the title with .mp3, whatever extension the
\* engine reported; a quality outside best/1080/720/480 selects the one
\* default format expression and the call goes on as for any other quality.
C19_Download ==
    call.op = "download"
    => LET audio == call.audio_only \/ call.quality = QAUDIO
           title == call.eng.title
           expected == IF audio THEN title \o DOT_MP3 ELSE title \o call.eng.reported IN
       /\ call.ret # NoPath => exists(fs, call.ret)
       /\ call.eng.raises => call.ret = NoPath
       /\ ~call.eng.raises
          => call.ret = IF exists(fs, expected) THEN expected ELSE NoPath
       /\ (audio /\ call.ret # NoPath)
          => /\ Len(call.ret) > Len(DOT_MP3)
             /\ SubSeq(call.ret, Len(call.ret) - Len(DOT_MP3) + 1, Len(call.ret)) = DOT_MP3
       /\ (~audio /\ call.quality \notin { <<"b","e","s","t">>, <<"1","0","8","0">>, Q720, Q480 })
          => call.format = "best[ext=mp4]"

\* an audio request, asked for through audio_only with a quality outside the
\* table, whose engine reported v.webm: v.mp3 is returned and exists
C19_Witness ==
    /\ call.op = "download" /\ call.audio_only /\ call.quality = <<"3","6","0">>
    /\ ~call.eng.raises /\ call.eng.reported = DOT_WEBM
    /\ call.ret = <<"v">> \o DOT_MP3
    /\ exists(fs, call.ret)

\* C20: whenever the body was streamed to disk completely, download_song
\* returns the artifact path and the file is there with the streamed body,
\* whether the tagging of _add_metadata succeeded or failed.
C20_TaggingSwallowed ==
    (/\ call.op = "download_song" /\ call.song.download_url /\ call.net.connect_ok
     /\ call.net.content_length <= MAX_FILE_SIZE /\ call.net.stream_ok)
    => /\ call.ret = call.path
       /\ exists(fs, call.path)
       /\ fs[call.path] = [owner |-> 1, size |-> call.net.size]

C20_Witness ==
    /\ call.op = "download_song" /\ call.net.connect_ok /\ call.net.stream_ok
    /\ ~call.net.tag_ok
    /\ call.ret = call.path /\ exists(fs, call.path)

\* C22: for every metadata get_info returned whose duration is at most 600
\* seconds or absent, youtube_handler ends with a menu presented that has the
\* audio option last, 480 whenever a progressive stream exists and 720 only
\* when a progressive stream labelled 720p exists; it does not raise.
C22_MenuForOptionalDuration ==
    \A r \in Req :
        /\ (/\ req[r].handler = "youtube_handler" /\ req[r].pc \in {"choice", "returned", "raised"}
            /\ req[r].msg \notin {MSG_YT_USAGE, MSG_INVALID_YT, MSG_INFO_FAILED, MSG_TOO_LONG})
           => /\ req[r].pc = "choice"
              /\ Len(req[r].menu) >= 1
              /\ StartsAt(req[r].menu[Len(req[r].menu)], QUALITY_PREFIX \o QAUDIO \o SEP, 1)
        /\ req[r].pc = "yt_in_get_info"
           => \A eng \in InfoAnswers : \A info \in {get_info(req[r].url, eng)} :
                (info # None /\ ~too_long(info[1].duration))
                => \A menu \in {quality_keyboard(info[1], req[r].url)} :
                     LET has(q) == \E i \in 1..Len(menu) :
                                      StartsAt(menu[i], QUALITY_PREFIX \o q \o SEP, 1)
                         progressive == { i \in 1..Len(eng.formats) :
                                            eng.formats[i].vcodec /\ eng.formats[i].acodec } IN
                     /\ has(QAUDIO)
                     /\ progressive # {} => has(Q480)
                     /\ has(Q720) => \E i \in progressive : eng.formats[i].quality_label = "720p"

\* the fixed texts a failed request is answered with
FailureMessages ==
    { MSG_YT_USAGE, MSG_INVALID_YT, MSG_INFO_FAILED, MSG_TOO_LONG, MSG_SV_USAGE,
      MSG_FETCH_DETAILS_FAILED, MSG_DOWNLOAD_FAILED, MSG_NO_RESULTS, MSG_YT_DOWNLOAD_FAILED,
      MSG_TOO_LARGE, MSG_SEND_FILE_FAILED, MSG_GET_DETAILS_FAILED, MSG_SEND_AUDIO_FAILED,
      MSG_UNSUPPORTED, MSG_ERROR }

\* C21: every failed request, whether its handler returned or raised, has
\* been answered with one of the fixed texts, the catch-all one when it
\* raised; the failed request does not hold the event loop, and once no
\* handler is running the update of every other request is handled: its
\* command or text starts its handler.
C21_FailureReported ==
    \A r1 \in Req :
        Failed(r1)
        => /\ req[r1].msg \in FailureMessages
           /\ req[r1].pc = "raised" => req[r1].msg = MSG_ERROR
           /\ loop # r1
           /\ \A r2 \in Req \ {r1} :
                (loop = 0 /\ \A r3 \in Req : ~Active(r3))
                => (req[r2].pc = "idle"
                    => /\ ENABLED youtube_handler(r2)
                       /\ ENABLED saavn_handler(r2)
                       /\ ENABLED handle_url(r2))

\* one request has raised and was answered by error_handler; the handler of
\* another, started after that, has fetched its artifact and is sending it
C21_Witness ==
    \E r1 \in Req, r2 \in Req :
        /\ req[r1].pc = "raised" /\ req[r1].msg = MSG_ERROR
        /\ req[r2].pc = "qc_send" /\ HoldsArtifact(r2)

====
